---- MODULE Spec2Model ----
(***************************************************************************)
(* Live telemetry console of gm-afm-dongle: the signal catalog             *)
(* (my_uds.PID_LIST, my_uds.DID_LIST, liveview.iter_all_signals), the      *)
(* active-set store (load_active_flags, save_active_flags) and the         *)
(* View/Configure loop of liveview.run_liveview_curses with its poll pass  *)
(* and its drain of the inbound frame queue.                               *)
(***************************************************************************)
EXTENDS Integers, Sequences, FiniteSets, TLC

\* ------------------------------------------------------------ catalog
\* OBD-II mode 1 parameter ids, in declared order (key = (ecu, pid)).
PID_LIST ==
  <<
    [ecu |-> 2016, id |-> 4, label |-> "Calculated Engine Load", fn |-> "decode_percent"],
    [ecu |-> 2016, id |-> 5, label |-> "ECT", fn |-> "decode_temp"],
    [ecu |-> 2016, id |-> 6, label |-> "STFT B1", fn |-> "decode_percent"],
    [ecu |-> 2016, id |-> 7, label |-> "LTFT B1", fn |-> "decode_percent"],
    [ecu |-> 2016, id |-> 8, label |-> "STFT B2", fn |-> "decode_percent"],
    [ecu |-> 2016, id |-> 9, label |-> "LTFT B2", fn |-> "decode_percent"],
    [ecu |-> 2016, id |-> 10, label |-> "FP", fn |-> "decode_pressure"],
    [ecu |-> 2016, id |-> 11, label |-> "MAP", fn |-> "decode_pressure"],
    [ecu |-> 2016, id |-> 12, label |-> "RPM", fn |-> "decode_rpm"],
    [ecu |-> 2016, id |-> 13, label |-> "VSS", fn |-> "decode_speed"],
    [ecu |-> 2016, id |-> 14, label |-> "Timing Advance", fn |-> "decode_generic"],
    [ecu |-> 2016, id |-> 15, label |-> "Intake Air Temperature", fn |-> "decode_temp"],
    [ecu |-> 2016, id |-> 16, label |-> "MAF", fn |-> "decode_generic"],
    [ecu |-> 2016, id |-> 17, label |-> "TPS", fn |-> "decode_percent"],
    [ecu |-> 2016, id |-> 70, label |-> "AAT", fn |-> "decode_temp"],
    [ecu |-> 2016, id |-> 31, label |-> "Run Time Since Engine Start", fn |-> "decode_generic"],
    [ecu |-> 2016, id |-> 33, label |-> "Distance with MIL On", fn |-> "decode_generic"],
    [ecu |-> 2016, id |-> 47, label |-> "Fuel Level Input", fn |-> "decode_percent"],
    [ecu |-> 2016, id |-> 51, label |-> "Barometric Pressure", fn |-> "decode_pressure"],
    [ecu |-> 2016, id |-> 70, label |-> "Ambient Air Temperature", fn |-> "decode_temp"],
    [ecu |-> 2016, id |-> 92, label |-> "Engine Oil Temperature", fn |-> "decode_temp"],
    [ecu |-> 2016, id |-> 94, label |-> "Engine Fuel Rate", fn |-> "decode_generic"]
  >>

\* UDS data identifiers (service 0x22), in declared order.
DID_LIST ==
  <<
    [ecu |-> 2016, id |-> 4096, label |-> "ECU Identification", fn |-> "decode_generic"],
    [ecu |-> 2016, id |-> 4097, label |-> "VIN", fn |-> "decode_generic"],
    [ecu |-> 2016, id |-> 4099, label |-> "Calibration ID", fn |-> "decode_generic"],
    [ecu |-> 2016, id |-> 4101, label |-> "ECU Serial Number", fn |-> "decode_generic"],
    [ecu |-> 2016, id |-> 4112, label |-> "ECU Software Version", fn |-> "decode_generic"],
    [ecu |-> 2016, id |-> 4352, label |-> "Engine Speed", fn |-> "decode_rpm"],
    [ecu |-> 2016, id |-> 4353, label |-> "Vehicle Speed", fn |-> "decode_speed"],
    [ecu |-> 2016, id |-> 4354, label |-> "Throttle Position", fn |-> "decode_percent"],
    [ecu |-> 2016, id |-> 4355, label |-> "Intake Manifold Pressure", fn |-> "decode_pressure"],
    [ecu |-> 2016, id |-> 4356, label |-> "Engine Load", fn |-> "decode_percent"],
    [ecu |-> 2016, id |-> 4357, label |-> "Mass Air Flow", fn |-> "decode_generic"],
    [ecu |-> 2016, id |-> 4358, label |-> "Intake Air Temperature", fn |-> "decode_temp"],
    [ecu |-> 2016, id |-> 4359, label |-> "Coolant Temperature", fn |-> "decode_temp"],
    [ecu |-> 2016, id |-> 4360, label |-> "Barometric Pressure", fn |-> "decode_pressure"],
    [ecu |-> 2016, id |-> 4368, label |-> "Fuel Rail Pressure", fn |-> "decode_pressure"],
    [ecu |-> 2016, id |-> 4369, label |-> "Fuel Pump Command", fn |-> "decode_percent"],
    [ecu |-> 2016, id |-> 4370, label |-> "Oil Pressure", fn |-> "decode_pressure"],
    [ecu |-> 2016, id |-> 4371, label |-> "Oil Temperature", fn |-> "decode_temp"],
    [ecu |-> 2016, id |-> 6400, label |-> "AFM Active Cylinders Mask", fn |-> "decode_generic"],
    [ecu |-> 2016, id |-> 6401, label |-> "AFM Mode Active", fn |-> "decode_yes_no"],
    [ecu |-> 2016, id |-> 6402, label |-> "AFM Commanded State", fn |-> "decode_yes_no"],
    [ecu |-> 2016, id |-> 6403, label |-> "AFM Transition Counter", fn |-> "decode_generic"],
    [ecu |-> 2016, id |-> 6404, label |-> "AFM Desired Cylinder Torque", fn |-> "decode_generic"],
    [ecu |-> 2016, id |-> 6405, label |-> "AFM Actual Cylinder Torque", fn |-> "decode_generic"],
    [ecu |-> 2016, id |-> 6406, label |-> "AFM Intake Manifold Pressure", fn |-> "decode_pressure"],
    [ecu |-> 2016, id |-> 6407, label |-> "AFM Estimated Fuel Savings", fn |-> "decode_percent"],
    [ecu |-> 2016, id |-> 6416, label |-> "AFM Fault Status", fn |-> "decode_generic"],
    [ecu |-> 2016, id |-> 6417, label |-> "AFM Enable Criteria Satisfied", fn |-> "decode_yes_no"],
    [ecu |-> 2016, id |-> 6418, label |-> "AFM Disable Reason", fn |-> "decode_generic"],
    [ecu |-> 2016, id |-> 8192, label |-> "Gear Position", fn |-> "decode_generic"],
    [ecu |-> 2016, id |-> 8193, label |-> "Trans Oil Temp", fn |-> "decode_temp"],
    [ecu |-> 2016, id |-> 8194, label |-> "Clutch Command", fn |-> "decode_generic"],
    [ecu |-> 2016, id |-> 8195, label |-> "VSS", fn |-> "decode_speed"],
    [ecu |-> 2016, id |-> 8208, label |-> "Brake Pedal Pos", fn |-> "decode_percent"],
    [ecu |-> 2016, id |-> 8209, label |-> "Accel Pedal Pos", fn |-> "decode_percent"],
    [ecu |-> 2016, id |-> 8224, label |-> "Steering Angle", fn |-> "decode_generic"],
    [ecu |-> 2016, id |-> 8225, label |-> "Yaw Rate", fn |-> "decode_generic"],
    [ecu |-> 2016, id |-> 12288, label |-> "Ambient Temp", fn |-> "decode_temp"],
    [ecu |-> 2016, id |-> 12289, label |-> "Battery Voltage", fn |-> "decode_voltage"],
    [ecu |-> 2016, id |-> 12290, label |-> "Alternator Load", fn |-> "decode_percent"],
    [ecu |-> 2016, id |-> 12291, label |-> "Odometer", fn |-> "decode_generic"],
    [ecu |-> 2016, id |-> 12292, label |-> "Ignition Status", fn |-> "decode_generic"],
    [ecu |-> 2016, id |-> 62476, label |-> "GM Engine Load (Alt)", fn |-> "decode_percent"],
    [ecu |-> 2016, id |-> 62495, label |-> "GM AFM Active", fn |-> "decode_yes_no"]
  >>

\* Positions of PID_LIST and DID_LIST that make up the modelled catalog: the
\* RPM row, the two rows that declare pid 0x46, and one data identifier.
PidSel == {9, 15, 20}
DidSel == {6}

Range(s) == {s[i] : i \in 1..Len(s)}

Min(a, b) == IF a < b THEN a ELSE b

Max(a, b) == IF a > b THEN a ELSE b

\* The entries of list at the positions in sel, in list order.
Pick(list, sel) ==
  LET F[i \in 0..Len(list)] ==
        IF i = 0 THEN <<>>
        ELSE IF i \in sel THEN Append(F[i - 1], list[i]) ELSE F[i - 1]
  IN F[Len(list)]

\* One catalog row: ((ecu, sid, id), info) with the service id inserted.
Signal(e, sid) ==
  [key |-> <<e.ecu, sid, e.id>>, info |-> [label |-> e.label, fn |-> e.fn]]

\* iter_all_signals that yields the DID rows first.
iter_all_signals_DidFirst ==
  LET p == Pick(PID_LIST, PidSel)
      d == Pick(DID_LIST, DidSel)
  IN [i \in 1..Len(d) |-> Signal(d[i], 34)] \o [i \in 1..Len(p) |-> Signal(p[i], 1)]

\* All PID rows (service 0x01) followed by all DID rows (service 0x22).
iter_all_signals ==
  LET p == Pick(PID_LIST, PidSel)
      d == Pick(DID_LIST, DidSel)
  IN [i \in 1..Len(p) |-> Signal(p[i], 1)] \o [i \in 1..Len(d) |-> Signal(d[i], 34)]

CatalogKeys == {iter_all_signals[i].key : i \in 1..Len(iter_all_signals)}

\* ------------------------------------------------------------ JSON values
JNum(n) == [t |-> "num", n |-> n, a |-> <<>>]

JArr(s) == [t |-> "arr", n |-> 0, a |-> s]

\* list(active_keys): the set in some iteration order.
py_list(S) == {l \in [1..Cardinality(S) -> S] : Range(l) = S}

\* json_dumps that loses the last tuple of the list.
json_dumps_DropLast(l) ==
  JArr([i \in 1..(Len(l) - 1) |-> JArr([j \in 1..Len(l[i]) |-> JNum(l[i][j])])])

\* json.dumps of a list of integer tuples: an array of arrays of numbers.
json_dumps(l) ==
  JArr([i \in 1..Len(l) |-> JArr([j \in 1..Len(l[i]) |-> JNum(l[i][j])])])

\* tuple(item) of a parsed JSON array of numbers.
py_tuple(item) == [j \in 1..Len(item.a) |-> item.a[j].n]

\* ------------------------------------------------------------ active-set store
\* STATE_FILE as the store sees it: absent, unreadable, text that json.loads
\* rejects (an empty or truncated file), or a parsed JSON document.
NoDoc == JNum(0)

FileAbsent == [kind |-> "absent", doc |-> NoDoc]

FileUnreadable == [kind |-> "unreadable", doc |-> NoDoc]

FileGarbage == [kind |-> "garbage", doc |-> NoDoc]

FileJson(doc) == [kind |-> "json", doc |-> doc]

\* LoadRaises that also rejects a document with no items.
LoadRaises_EmptyToo(f) ==
  \/ f.kind # "json"
  \/ f.doc.t # "arr"
  \/ Len(f.doc.a) = 0
  \/ \E i \in 1..Len(f.doc.a) :
       \/ f.doc.a[i].t # "arr"
       \/ \E j \in 1..Len(f.doc.a[i].a) : f.doc.a[i].a[j].t # "num"

\* The try block of load_active_flags raises: read_text or json.loads fails,
\* the document is not iterable, an item is not iterable (tuple(5)), or an
\* item holds a list (a tuple holding a list is unhashable).
LoadRaises(f) ==
  \/ f.kind # "json"
  \/ f.doc.t # "arr"
  \/ \E i \in 1..Len(f.doc.a) :
       \/ f.doc.a[i].t # "arr"
       \/ \E j \in 1..Len(f.doc.a[i].a) : f.doc.a[i].a[j].t # "num"

\* load_active_flags whose except branch leaves the set empty.
load_active_flags_NoFallback(f, master_list) ==
  IF LoadRaises(f)
    THEN {}
    ELSE {py_tuple(f.doc.a[i]) : i \in 1..Len(f.doc.a)}

load_active_flags(f, master_list) ==
  IF LoadRaises(f)
    THEN {master_list[i].key : i \in 1..Len(master_list)}
    ELSE {py_tuple(f.doc.a[i]) : i \in 1..Len(f.doc.a)}

\* What save_active_flags can leave in STATE_FILE: the dumped list, or on a
\* failure (caught, with a warning) the old content (the open failed) or a
\* truncated file (the write failed).
save_active_flags(active, f) ==
  {FileJson(json_dumps(l)) : l \in py_list(active)} \cup {f, FileGarbage}

\* ------------------------------------------------------------ decode functions
\* A display string, kept as its parts: the unit or wording, the number
\* printed, the bytes printed.
Text(unit, num, bytes) == [unit |-> unit, num |-> num, bytes |-> bytes]

DecodeError == Text("decode error", 0, <<>>)

\* f"{x / d:.0f}": round to nearest, ties to even.
RoundHalfEven(x, d) ==
  LET q == x \div d
      r == x % d
  IN IF 2 * r < d THEN q
     ELSE IF 2 * r > d THEN q + 1
     ELSE IF q % 2 = 0 THEN q ELSE q + 1

\* The decode function named fn applied to the value bytes: its string, or
\* DecodeError where it raises ValueError.
Decode(fn, data) ==
  CASE fn = "decode_pressure" ->
         IF Len(data) < 1 THEN DecodeError ELSE Text("kPa", data[1], <<>>)
    [] fn = "decode_rpm" ->
         IF Len(data) < 2 THEN DecodeError
         ELSE Text("rpm", RoundHalfEven(data[1] * 256 + data[2], 4), <<>>)
    [] fn = "decode_speed" ->
         IF Len(data) < 1 THEN DecodeError ELSE Text("km/h", data[1], <<>>)
    [] fn = "decode_percent" ->
         IF Len(data) < 1 THEN DecodeError
         ELSE Text("tenths %", RoundHalfEven(data[1] * 1000, 255), <<>>)
    [] fn = "decode_temp" ->
         IF Len(data) < 1 THEN DecodeError ELSE Text("C", data[1] - 40, <<>>)
    [] fn = "decode_voltage" ->
         IF Len(data) < 1 THEN DecodeError ELSE Text("tenths V", data[1], <<>>)
    [] fn = "decode_yes_no" ->
         IF Len(data) < 1 THEN DecodeError
         ELSE Text(IF data[1] # 0 THEN "Yes" ELSE "No", 0, <<>>)
    [] OTHER -> Text("hex", 0, data)

\* ------------------------------------------------------------ frames
Frame(arb_id, data) == [arbitration_id |-> arb_id, data |-> data]

\* arb_id & 0x08
DirectionBit(arb_id) == (arb_id \div 8) % 2

\* arb_id & 0xFFF7
Normalize(arb_id) == (arb_id % 65536) - 8 * DirectionBit(arb_id)

\* search_list: the info of the first entry of id_list whose key is
\* (arb_id, pid), as a set of at most one element.
search_list(arb_id, pid, id_list) ==
  LET hits == {i \in 1..Len(id_list) :
                 id_list[i].ecu = arb_id /\ id_list[i].id = pid}
  IN IF hits = {} THEN {}
     ELSE {id_list[CHOOSE i \in hits : \A j \in hits : i <= j]}

\* The catalog entry draw_row looks up for a key: PID_LIST for service 0x01,
\* else DID_LIST; none when no entry declares the key.
lookup(k) == search_list(k[1], k[3], IF k[2] = 1 THEN PID_LIST ELSE DID_LIST)

Tail2(s, n) == SubSeq(s, n + 1, Len(s))

\* framing without the test of the direction bit.
framing_NoDirectionCheck(msg) ==
  LET d == msg.data
      a == msg.arbitration_id
  IN IF Len(d) < 3 THEN {}
     ELSE IF d[2] = 65 THEN
       {[arb_id |-> a, sid |-> 1, pid |-> d[3], value |-> Decode(e.fn, Tail2(d, 3))] :
          e \in search_list(Normalize(a), d[3], PID_LIST)}
     ELSE IF d[2] = 98 /\ Len(d) >= 4 THEN
       {[arb_id |-> a, sid |-> 34, pid |-> d[3] * 256 + d[4],
         value |-> Decode(e.fn, Tail2(d, 4))] :
          e \in search_list(Normalize(a), d[3] * 256 + d[4], DID_LIST)}
     ELSE {}

\* The callbacks framing makes for one frame: none for a request, an empty or
\* short payload, an unrecognised service code or a lookup miss; otherwise
\* one, with the response's own address, the parameter id and the decoded
\* value.
framing(msg) ==
  LET d == msg.data
      a == msg.arbitration_id
  IN IF DirectionBit(a) = 0 \/ Len(d) < 3 THEN {}
     ELSE IF d[2] = 65 THEN
       {[arb_id |-> a, sid |-> 1, pid |-> d[3], value |-> Decode(e.fn, Tail2(d, 3))] :
          e \in search_list(Normalize(a), d[3], PID_LIST)}
     ELSE IF d[2] = 98 /\ Len(d) >= 4 THEN
       {[arb_id |-> a, sid |-> 34, pid |-> d[3] * 256 + d[4],
         value |-> Decode(e.fn, Tail2(d, 4))] :
          e \in search_list(Normalize(a), d[3] * 256 + d[4], DID_LIST)}
     ELSE {}

\* framing that raises on a frame it cannot parse.
framing_raises_Malformed(msg) ==
  Len(msg.data) < 3 \/ msg.data[2] \notin {65, 98}

\* framing that lets the exception of a decode function through.
framing_raises_DecodeError(msg) ==
  \E cb \in framing(msg) : cb.value = DecodeError

\* Whether framing raises on msg: never, it discards what it cannot parse and
\* turns a decode failure into the error marker.
framing_raises(msg) == FALSE

\* Frames the bus delivers in the model: an RPM response (0x7E8, 0x41, 0x0C,
\* 0x1A 0xF8), an air-temperature response (pid 0x46) and the echo of an RPM
\* request from the tester's own address.
RpmResponse == Frame(2024, <<4, 65, 12, 26, 248>>)

AatResponse == Frame(2024, <<3, 65, 70, 60>>)

RpmRequest == Frame(2016, <<2, 1, 12>>)

Frames == {RpmResponse, AatResponse, RpmRequest}

\* A response to the Engine Speed DID 0x1100 (0x62), and a frame that carries
\* the RPM response's payload under the tester's own address 0x7E0.
DidResponse == Frame(2024, <<5, 98, 17, 0, 26, 248>>)

ClearBitFrame == Frame(2016, <<4, 65, 12, 26, 248>>)

BusFrames == {RpmResponse, DidResponse, ClearBitFrame}

\* Frames no response handler accepts: no payload, a payload that ends inside
\* the 0x41 or the 0x62 header, and the service code 0x99.
EmptyFrame == Frame(2024, <<>>)

ShortFrame == Frame(2024, <<1, 65>>)

ShortDidFrame == Frame(2024, <<2, 98, 17>>)

UnknownService == Frame(2024, <<3, 153, 12, 0>>)

\* An RPM response without its value bytes: decode_rpm raises on it.
TruncatedRpm == Frame(2024, <<2, 65, 12>>)

RxFrames ==
  {EmptyFrame, ShortFrame, ShortDidFrame, UnknownService, TruncatedRpm,
   RpmResponse, AatResponse}

\* A second RPM response with another value (0x0C80 / 4 = 800 rpm).
RpmIdle == Frame(2024, <<4, 65, 12, 12, 128>>)

OrderFrames == {RpmResponse, RpmIdle, DidResponse}

\* A response for the row of 0x0C and one for the rows of 0x46.
ScreenFrames == {RpmResponse, AatResponse}

\* ------------------------------------------------------------ bounds
\* Tallest terminal of the model, and the most frames waiting in msg_queue.
MaxRows == 6

MaxQueue == 1

\* Tallest terminal of the runs that only configure.
MaxTall == 8

\* The narrowest terminal whose data window shows a whole value cell.
WideCols == 97

\* create_windows refuses a terminal of fewer rows.
MinRows == 4

\* create_windows refuses a terminal of fewer columns.
MinCols == 40

\* A triple that is the key of no catalog entry.
ForeignKey == <<2016, 1, 255>>

\* Contents STATE_FILE may have when the program starts.
InitFiles ==
  {FileAbsent, FileUnreadable, FileGarbage,
   FileJson(JNum(7)),
   FileJson(JArr(<<>>)),
   FileJson(JArr(<<JNum(7)>>)),
   FileJson(JArr(<<JArr(<<JArr(<<>>)>>)>>)),
   FileJson(json_dumps(<<ForeignKey>>))}
  \cup {FileJson(json_dumps(<<k>>)) : k \in CatalogKeys}
  \cup {FileJson(json_dumps(<<k, ForeignKey, k>>)) : k \in {<<2016, 1, 12>>}}

\* What getch returns: a key, or "timeout" for -1 after 200 ms.
Keys == {"q", "c", "v", "KEY_DOWN", "j", "KEY_UP", "k", "space", "x", "timeout"}

\* ------------------------------------------------------------ state
VARIABLES
  file,           \* content of STATE_FILE
  rows,           \* h of the terminal and of data_win
  cols,           \* w of the terminal
  bus,            \* the frames the bus delivers to the listener in this run
  pc,             \* "start", "getch", "drain", "exit", "failed"
  active_keys,    \* set of (ecu, sid, id) tuples
  mode_configure, \* FALSE: View, TRUE: Configure
  selected,       \* cursor row, an index of the catalog (from 0)
  scroll_offset,
  key,            \* the key getch returned in this tick
  msg_queue,      \* frames the listener has queued
  msg,            \* the frame the drain loop took last in this tick
  value_cache,    \* (ecu, sid, id) -> display string
  tx,             \* frames sent by startup or by the last poll pass
  toggled,        \* rows toggled an odd number of times since a start from
                  \* an empty STATE_FILE, or NotRecorded
  arrived,        \* the frames the listener has queued in this run, each once,
                  \* in the order of their latest arrival, or NotLogged
  draw_all,       \* the next pass of the loop renders the whole data window
  data_win        \* what the data window shows, row by row, or NotDrawn

vars ==
  <<file, rows, cols, bus, pc, active_keys, mode_configure, selected,
    scroll_offset, key, msg_queue, msg, value_cache, tx, toggled, arrived,
    draw_all, data_win>>

\* n_visible of iter_visible_rows and of the scroll-down branch.
n_visible == (rows - 1) - 1 - 1

\* visible_rows of the main loop.
visible_rows == Max(1, rows - 4)

\* The rows iter_visible_rows visits: the catalog rows whose key is active,
\* from scroll_offset, at most n_visible of them.
iter_visible_rows(active, offset) ==
  LET on == SelectSeq(iter_all_signals, LAMBDA e : e.key \in active)
  IN SubSeq(on, offset + 1, Min(offset + n_visible, Len(on)))

\* toggled when the toggles of the run are not recorded.
NotRecorded == {-1}

\* arrived when the arrivals of the run are not logged.
NotLogged == <<Frame(0, <<>>)>>

\* data_win in a run that does not track what is drawn.
NotDrawn == <<[line |-> [kind |-> "untracked"]]>>

\* msg before the first get_nowait of a tick.
NoMsg == Frame(0, <<>>)

\* The state run_liveview_curses starts from.
InitLoop ==
  /\ pc = "start"
  /\ active_keys = {}
  /\ mode_configure = FALSE
  /\ selected = 0
  /\ scroll_offset = 0
  /\ key = "none"
  /\ msg_queue = <<>>
  /\ msg = NoMsg
  /\ value_cache = <<>>
  /\ tx = <<>>
  /\ draw_all = TRUE

\* Every start file and terminal height on a silent bus; a bus that delivers
\* Frames with no start file; a start from an empty STATE_FILE in which the
\* operator's toggles are recorded; and a terminal one column too narrow.
Init ==
  /\ InitLoop
  /\ arrived = NotLogged /\ data_win = NotDrawn
  /\ \/ /\ file \in InitFiles /\ rows \in (MinRows - 1)..MaxRows
        /\ cols = MinCols /\ bus = {} /\ toggled = NotRecorded
     \/ /\ file = FileAbsent /\ rows = MinRows + 1
        /\ cols = MinCols /\ bus = Frames /\ toggled = NotRecorded
     \/ /\ file = FileGarbage /\ rows = MinRows + 1
        /\ cols = MinCols /\ bus = {} /\ toggled = {}
     \/ /\ file = FileAbsent /\ rows \in {MinRows - 1, MinRows + 1}
        /\ cols = MinCols - 1 /\ bus = Frames /\ toggled = NotRecorded

\* ---- render_view
\* value_cache.get(..., '------')
Placeholder == Text("------", 0, <<>>)

\* The value draw_row puts on the row of catalog entry item.
draw_row(cache, item) ==
  LET k == <<Normalize(item.key[1]), item.key[2], item.key[3]>>
  IN IF k \in DOMAIN cache THEN cache[k] ELSE Placeholder

\* ---- render_configure
\* The lines render_configure draws: the catalog rows from scroll_offset, at
\* most n_visible of them, each with its mark and whether it is the
\* highlighted one.
render_configure(active, sel, offset) ==
  LET last == Min(offset + n_visible, Len(iter_all_signals))
      vis == SubSeq(iter_all_signals, offset + 1, last)
  IN [i \in 1..Len(vis) |->
        [entry |-> vis[i], mark |-> vis[i].key \in active,
         reverse |-> (offset + (i - 1) = sel)]]

\* ---- the data window
\* left_w of create_windows: the width of data_win.
left_w == (cols - 1) \div 2

\* The characters of a value safe_addstr keeps when the value is written at
\* column 32 of data_win: text[: width - x - 1] of value[:15].
ValueWidth == Min(15, Max(0, left_w - 32 - 1))

BlankLine == [kind |-> "blank"]

\* A value cell nothing is written in.
NoCell == [value |-> Text("", 0, <<>>), shown |-> 0]

\* The value cell after value has been written at column 32.
Cell(value) ==
  IF ValueWidth = 0 THEN NoCell ELSE [value |-> value, shown |-> ValueWidth]

\* data_win.clear(): the rows iter_visible_rows can visit, all blank.
clear == [y \in 1..Max(0, n_visible) |-> [line |-> BlankLine, cell |-> NoCell]]

\* The window render_view leaves: draw_row on every row iter_visible_rows
\* visits, blank below.
render_view(active, offset, cache) ==
  LET vis == iter_visible_rows(active, offset)
  IN [y \in 1..Max(0, n_visible) |->
        IF y <= Len(vis)
          THEN [line |-> [kind |-> "view", entry |-> vis[y]],
                cell |-> Cell(draw_row(cache, vis[y]))]
          ELSE clear[y]]

\* The window render_configure leaves.
configure_window(active, sel, offset) ==
  LET lines == render_configure(active, sel, offset)
  IN [y \in 1..Max(0, n_visible) |->
        IF y <= Len(lines)
          THEN [line |-> [kind |-> "configure", text |-> lines[y]],
                cell |-> NoCell]
          ELSE clear[y]]

\* The top of the loop: with draw_all set, the render of the mode.
render(win, draw, configure, active, sel, offset, cache) ==
  IF win = NotDrawn \/ ~draw THEN win
  ELSE IF configure THEN configure_window(active, sel, offset)
  ELSE render_view(active, offset, cache)

\* The rows draw_row_value writes for callback cb: iter_visible_rows stops at
\* the first row whose key matches.
written_rows(active, offset, cb) ==
  LET vis == iter_visible_rows(active, offset)
      hit == {y \in 1..Len(vis) :
                <<Normalize(vis[y].key[1]), vis[y].key[2], vis[y].key[3]>>
                  = <<Normalize(cb.arb_id), cb.sid, cb.pid>>}
  IN IF hit = {} THEN {} ELSE {CHOOSE y \in hit : \A z \in hit : y <= z}

\* draw_row_value that writes in Configure mode too.
draw_row_value_AnyMode(win, configure, active, offset, cb) ==
  IF win = NotDrawn \/ ValueWidth = 0 THEN win
  ELSE [y \in 1..Len(win) |->
          IF y \in written_rows(active, offset, cb)
            THEN [win[y] EXCEPT !.cell = Cell(cb.value)] ELSE win[y]]

\* The drawing part of on_didpid: in View mode, iter_visible_rows with
\* draw_row_value as the visitor.
draw_row_value(win, configure, active, offset, cb) ==
  IF win = NotDrawn \/ configure \/ ValueWidth = 0 THEN win
  ELSE [y \in 1..Len(win) |->
          IF y \in written_rows(active, offset, cb)
            THEN [win[y] EXCEPT !.cell = Cell(cb.value)] ELSE win[y]]

\* Startup whose create_windows tests the height only.
Startup_RowsOnly ==
  /\ pc = "start"
  /\ IF rows < MinRows
       THEN /\ pc' = "failed"
            /\ UNCHANGED <<active_keys, tx, draw_all, data_win>>
       ELSE /\ pc' = "getch"
            /\ active_keys' = load_active_flags(file, iter_all_signals)
            /\ tx' = <<[kind |-> "enter_diag_session", key |-> <<>>]>>
            /\ draw_all' = FALSE
            /\ data_win' = render(IF data_win = NotDrawn THEN data_win ELSE clear,
                                  draw_all, mode_configure, active_keys',
                                  selected, scroll_offset, value_cache)
  /\ UNCHANGED <<file, rows, cols, bus, mode_configure, selected, scroll_offset,
                 key, msg_queue, msg, value_cache, toggled, arrived>>

\* run_liveview_curses up to the loop: create_windows, load, enter session.
Startup ==
  /\ pc = "start"
  /\ IF rows < MinRows \/ cols < MinCols
       THEN /\ pc' = "failed"
            /\ UNCHANGED <<active_keys, tx, draw_all, data_win>>
       ELSE /\ pc' = "getch"
            /\ active_keys' = load_active_flags(file, iter_all_signals)
            /\ tx' = <<[kind |-> "enter_diag_session", key |-> <<>>]>>
            /\ draw_all' = FALSE
            /\ data_win' = render(IF data_win = NotDrawn THEN data_win ELSE clear,
                                  draw_all, mode_configure, active_keys',
                                  selected, scroll_offset, value_cache)
  /\ UNCHANGED <<file, rows, cols, bus, mode_configure, selected, scroll_offset,
                 key, msg_queue, msg, value_cache, toggled, arrived>>

\* PollPass that requests the visible rows in Configure mode too.
PollPass_ConfigureToo(configure, active, offset) ==
  <<[kind |-> "tester_present", key |-> <<>>]>>
  \o (LET vis == iter_visible_rows(active, offset)
      IN [i \in 1..Len(vis) |-> [kind |-> "request", key |-> vis[i].key]])

\* PollPass that sends the keep-alive only along with a request.
PollPass_OnlyWithRequests(configure, active, offset) ==
  IF configure \/ iter_visible_rows(active, offset) = <<>> THEN <<>>
  ELSE LET vis == iter_visible_rows(active, offset)
       IN <<[kind |-> "tester_present", key |-> <<>>]>>
          \o [i \in 1..Len(vis) |-> [kind |-> "request", key |-> vis[i].key]]

\* The frames of one poll pass: send_tester_present, then in View mode one
\* request per row iter_visible_rows visits.
PollPass(configure, active, offset) ==
  <<[kind |-> "tester_present", key |-> <<>>]>>
  \o (IF configure THEN <<>>
      ELSE LET vis == iter_visible_rows(active, offset)
           IN [i \in 1..Len(vis) |-> [kind |-> "request", key |-> vis[i].key]])

\* Got that starts the tick's drain from an empty cache.
Got_ForgetsCache(k) ==
  /\ key' = k
  /\ pc' = "drain"
  /\ tx' = PollPass(mode_configure', active_keys', scroll_offset')
  /\ value_cache' = <<>>
  /\ UNCHANGED <<rows, cols, bus, msg_queue, msg, arrived, data_win>>

\* getch returned k and the branch did not break: the poll pass follows and
\* the loop goes on to drain msg_queue.
Got(k) ==
  /\ key' = k
  /\ pc' = "drain"
  /\ tx' = PollPass(mode_configure', active_keys', scroll_offset')
  /\ UNCHANGED <<rows, cols, bus, msg_queue, msg, value_cache, arrived, data_win>>

\* Quit that breaks only after the tick's poll pass.
Quit_AfterPoll ==
  /\ key' = "q"
  /\ pc' = "exit"
  /\ tx' = PollPass(mode_configure, active_keys, scroll_offset)
  /\ UNCHANGED <<file, active_keys, mode_configure, selected, scroll_offset>>
  /\ UNCHANGED <<rows, cols, bus, msg_queue, msg, value_cache, toggled,
                 arrived, draw_all, data_win>>

\* getch returned 'q': break.
Quit ==
  /\ key' = "q"
  /\ pc' = "exit"
  /\ UNCHANGED <<file, active_keys, mode_configure, selected, scroll_offset>>
  /\ UNCHANGED <<rows, cols, bus, msg_queue, msg, value_cache, tx, toggled,
                 arrived, draw_all, data_win>>

\* ---- View mode
ViewQuit ==
  /\ pc = "getch" /\ ~mode_configure
  /\ Quit

\* ViewConfigure that keeps the View scroll offset.
ViewConfigure_KeepScroll ==
  /\ pc = "getch" /\ ~mode_configure
  /\ mode_configure' = TRUE
  /\ selected' = 0
  /\ UNCHANGED <<file, active_keys, scroll_offset>>
  /\ UNCHANGED toggled
  /\ draw_all' = TRUE
  /\ Got("c")

ViewConfigure ==
  /\ pc = "getch" /\ ~mode_configure
  /\ mode_configure' = TRUE
  /\ selected' = 0
  /\ scroll_offset' = 0
  /\ UNCHANGED <<file, active_keys>>
  /\ UNCHANGED toggled
  /\ draw_all' = TRUE
  /\ Got("c")

\* ViewDown without the stop at the bottom.
ViewDown_NoClamp ==
  /\ pc = "getch" /\ ~mode_configure
  /\ scroll_offset' = scroll_offset + 1
  /\ UNCHANGED <<file, active_keys, mode_configure, selected>>
  /\ UNCHANGED toggled
  /\ draw_all' = TRUE
  /\ \E k \in {"KEY_DOWN", "j"} : Got(k)

ViewDown ==
  /\ pc = "getch" /\ ~mode_configure
  /\ scroll_offset' =
       IF scroll_offset + n_visible < Cardinality(active_keys)
         THEN scroll_offset + 1 ELSE scroll_offset
  /\ UNCHANGED <<file, active_keys, mode_configure, selected>>
  /\ UNCHANGED toggled
  /\ draw_all' = TRUE
  /\ \E k \in {"KEY_DOWN", "j"} : Got(k)

ViewUp ==
  /\ pc = "getch" /\ ~mode_configure
  /\ scroll_offset' = IF scroll_offset > 0 THEN scroll_offset - 1 ELSE scroll_offset
  /\ UNCHANGED <<file, active_keys, mode_configure, selected>>
  /\ UNCHANGED toggled
  /\ draw_all' = TRUE
  /\ \E k \in {"KEY_UP", "k"} : Got(k)

\* ViewOther in which the space key toggles the row under the cursor.
ViewOther_SpaceToggles ==
  /\ pc = "getch" /\ ~mode_configure
  /\ UNCHANGED <<file, mode_configure, selected, scroll_offset>>
  /\ UNCHANGED <<toggled, draw_all>>
  /\ \E k \in Keys \ {"q", "c", "KEY_DOWN", "j", "KEY_UP", "k"} :
       /\ active_keys' =
            IF k = "space"
              THEN (active_keys \ {iter_all_signals[selected + 1].key})
                   \cup ({iter_all_signals[selected + 1].key} \ active_keys)
              ELSE active_keys
       /\ Got(k)

ViewOther ==
  /\ pc = "getch" /\ ~mode_configure
  /\ UNCHANGED <<file, active_keys, mode_configure, selected, scroll_offset>>
  /\ UNCHANGED <<toggled, draw_all>>
  /\ \E k \in Keys \ {"q", "c", "KEY_DOWN", "j", "KEY_UP", "k"} : Got(k)

\* ---- Configure mode
\* CfgQuit that saves the active set before it breaks.
CfgQuit_Saves ==
  /\ pc = "getch" /\ mode_configure
  /\ key' = "q"
  /\ pc' = "exit"
  /\ file' \in save_active_flags(active_keys, file)
  /\ UNCHANGED <<active_keys, mode_configure, selected, scroll_offset>>
  /\ UNCHANGED <<rows, cols, bus, msg_queue, msg, value_cache, tx, toggled,
                 arrived, draw_all, data_win>>

CfgQuit ==
  /\ pc = "getch" /\ mode_configure
  /\ Quit

\* CfgCommit in which a failed write ends the program.
CfgCommit_FailStops ==
  /\ pc = "getch" /\ mode_configure
  /\ file' \in save_active_flags(active_keys, file)
  /\ IF file' \in {file, FileGarbage}
       THEN /\ key' = "v"
            /\ pc' = "failed"
            /\ UNCHANGED <<mode_configure, scroll_offset, tx, rows, cols, bus,
                           msg_queue, msg, value_cache, arrived, data_win>>
       ELSE /\ mode_configure' = FALSE
            /\ scroll_offset' = 0
            /\ Got("v")
  /\ UNCHANGED <<active_keys, selected>>
  /\ UNCHANGED toggled
  /\ draw_all' = TRUE

\* CfgCommit that leaves scroll_offset where Configure mode had it.
CfgCommit_KeepScroll ==
  /\ pc = "getch" /\ mode_configure
  /\ file' \in save_active_flags(active_keys, file)
  /\ mode_configure' = FALSE
  /\ UNCHANGED <<active_keys, selected, scroll_offset>>
  /\ UNCHANGED toggled
  /\ draw_all' = TRUE
  /\ Got("v")

\* 'v': save_active_flags, back to View mode, scroll_offset = 0.
CfgCommit ==
  /\ pc = "getch" /\ mode_configure
  /\ file' \in save_active_flags(active_keys, file)
  /\ mode_configure' = FALSE
  /\ scroll_offset' = 0
  /\ UNCHANGED <<active_keys, selected>>
  /\ UNCHANGED toggled
  /\ draw_all' = TRUE
  /\ Got("v")

\* CfgUp that moves the cursor and leaves the window where it is.
CfgUp_NoScroll ==
  /\ pc = "getch" /\ mode_configure
  /\ IF selected > 0
       THEN selected' = selected - 1
       ELSE UNCHANGED selected
  /\ UNCHANGED <<file, active_keys, mode_configure, scroll_offset>>
  /\ UNCHANGED toggled
  /\ draw_all' = TRUE
  /\ \E k \in {"KEY_UP", "k"} : Got(k)

CfgUp ==
  /\ pc = "getch" /\ mode_configure
  /\ IF selected > 0
       THEN /\ selected' = selected - 1
            /\ scroll_offset' =
                 IF selected' - scroll_offset < 2 /\ scroll_offset > 0
                   THEN scroll_offset - 1 ELSE scroll_offset
       ELSE UNCHANGED <<selected, scroll_offset>>
  /\ UNCHANGED <<file, active_keys, mode_configure>>
  /\ UNCHANGED toggled
  /\ draw_all' = TRUE
  /\ \E k \in {"KEY_UP", "k"} : Got(k)

\* CfgDown without the stop at the last row.
CfgDown_NoStop ==
  /\ pc = "getch" /\ mode_configure
  /\ selected' = selected + 1
  /\ scroll_offset' =
       IF selected' - scroll_offset > visible_rows - 3
         THEN scroll_offset + 1 ELSE scroll_offset
  /\ UNCHANGED <<file, active_keys, mode_configure>>
  /\ UNCHANGED toggled
  /\ draw_all' = TRUE
  /\ \E k \in {"KEY_DOWN", "j"} : Got(k)

CfgDown ==
  /\ pc = "getch" /\ mode_configure
  /\ IF selected < Len(iter_all_signals) - 1
       THEN /\ selected' = selected + 1
            /\ scroll_offset' =
                 IF selected' - scroll_offset > visible_rows - 3
                   THEN scroll_offset + 1 ELSE scroll_offset
       ELSE UNCHANGED <<selected, scroll_offset>>
  /\ UNCHANGED <<file, active_keys, mode_configure>>
  /\ UNCHANGED toggled
  /\ draw_all' = TRUE
  /\ \E k \in {"KEY_DOWN", "j"} : Got(k)

\* Toggled that only ever adds the row's key.
Toggled_AddOnly(active, sel) == active \cup {iter_all_signals[sel + 1].key}

\* rowkey of the catalog row under the cursor, removed if active, else added.
Toggled(active, sel) ==
  LET rowkey == iter_all_signals[sel + 1].key
  IN IF rowkey \in active THEN active \ {rowkey} ELSE active \cup {rowkey}

CfgToggle ==
  /\ pc = "getch" /\ mode_configure
  /\ active_keys' = Toggled(active_keys, selected)
  /\ UNCHANGED <<file, mode_configure, selected, scroll_offset>>
  /\ toggled' = IF toggled = NotRecorded THEN toggled
                 ELSE (toggled \ {selected}) \cup ({selected} \ toggled)
  /\ draw_all' = TRUE
  /\ Got("space")

\* CfgOther in which 'c' leaves Configure mode as it enters it from View.
CfgOther_CToggles ==
  /\ pc = "getch" /\ mode_configure
  /\ UNCHANGED <<file, active_keys, selected, scroll_offset>>
  /\ UNCHANGED <<toggled, draw_all>>
  /\ \E k \in Keys \ {"q", "v", "KEY_UP", "k", "KEY_DOWN", "j", "space"} :
       /\ mode_configure' = (k # "c")
       /\ Got(k)

CfgOther ==
  /\ pc = "getch" /\ mode_configure
  /\ UNCHANGED <<file, active_keys, mode_configure, selected, scroll_offset>>
  /\ UNCHANGED <<toggled, draw_all>>
  /\ \E k \in Keys \ {"q", "v", "KEY_UP", "k", "KEY_DOWN", "j", "space"} : Got(k)

\* ---- the drain of msg_queue
\* on_didpid that keys the cache by the response's own address.
on_didpid_RawAddress(cache, cb) ==
  LET k == <<cb.arb_id, cb.sid, cb.pid>>
  IN [x \in DOMAIN cache \cup {k} |-> IF x = k THEN cb.value ELSE cache[x]]

\* value_cache[(arb_id & 0xFFF7, sid, pid)] = value
on_didpid(cache, cb) ==
  LET k == <<Normalize(cb.arb_id), cb.sid, cb.pid>>
  IN [x \in DOMAIN cache \cup {k} |-> IF x = k THEN cb.value ELSE cache[x]]

\* DrainOne that takes the frame queued last.
DrainOne_TakesLast ==
  /\ pc = "drain"
  /\ msg_queue # <<>>
  /\ msg_queue' = SubSeq(msg_queue, 1, Len(msg_queue) - 1)
  /\ msg' = msg_queue[Len(msg_queue)]
  /\ IF framing_raises(msg')
       THEN pc' = "failed" /\ UNCHANGED <<value_cache, data_win>>
       ELSE /\ pc' = pc
            /\ LET cbs == framing(msg')
               IN /\ value_cache' =
                    IF cbs = {} THEN value_cache
                    ELSE on_didpid(value_cache, CHOOSE cb \in cbs : TRUE)
               /\ data_win' =
                    IF cbs = {} THEN data_win
                    ELSE draw_row_value(data_win, mode_configure, active_keys,
                                        scroll_offset, CHOOSE cb \in cbs : TRUE)
  /\ UNCHANGED <<file, rows, cols, bus, active_keys, mode_configure, selected,
                 scroll_offset, key, tx, toggled, arrived, draw_all>>

\* DrainOne that stores the value only when View mode draws it.
DrainOne_ViewOnly ==
  /\ pc = "drain"
  /\ msg_queue # <<>>
  /\ msg_queue' = Tail(msg_queue)
  /\ msg' = Head(msg_queue)
  /\ IF framing_raises(msg')
       THEN pc' = "failed" /\ UNCHANGED <<value_cache, data_win>>
       ELSE /\ pc' = pc
            /\ LET cbs == framing(msg')
               IN /\ value_cache' =
                    IF cbs = {} \/ mode_configure THEN value_cache
                    ELSE on_didpid(value_cache, CHOOSE cb \in cbs : TRUE)
               /\ data_win' =
                    IF cbs = {} THEN data_win
                    ELSE draw_row_value(data_win, mode_configure, active_keys,
                                        scroll_offset, CHOOSE cb \in cbs : TRUE)
  /\ UNCHANGED <<file, rows, cols, bus, active_keys, mode_configure, selected,
                 scroll_offset, key, tx, toggled, arrived, draw_all>>

\* One pass of the drain loop: get_nowait, framing, its callback. The loop
\* catches queue.Empty only: whatever framing raises ends the program.
DrainOne ==
  /\ pc = "drain"
  /\ msg_queue # <<>>
  /\ msg_queue' = Tail(msg_queue)
  /\ msg' = Head(msg_queue)
  /\ IF framing_raises(msg')
       THEN pc' = "failed" /\ UNCHANGED <<value_cache, data_win>>
       ELSE /\ pc' = pc
            /\ LET cbs == framing(msg')
               IN /\ value_cache' =
                    IF cbs = {} THEN value_cache
                    ELSE on_didpid(value_cache, CHOOSE cb \in cbs : TRUE)
               /\ data_win' =
                    IF cbs = {} THEN data_win
                    ELSE draw_row_value(data_win, mode_configure, active_keys,
                                        scroll_offset, CHOOSE cb \in cbs : TRUE)
  /\ UNCHANGED <<file, rows, cols, bus, active_keys, mode_configure, selected,
                 scroll_offset, key, tx, toggled, arrived, draw_all>>

\* msg_queue.empty(): the tick ends, back to the top of the loop. msg is
\* not read again before the next get_nowait assigns it, so it is forgotten.
DrainDone ==
  /\ pc = "drain"
  /\ msg_queue = <<>>
  /\ pc' = "getch"
  /\ key' = "none"
  /\ msg' = NoMsg
  /\ draw_all' = FALSE
  /\ data_win' = render(data_win, draw_all, mode_configure, active_keys,
                        selected, scroll_offset, value_cache)
  /\ UNCHANGED <<file, rows, cols, bus, active_keys, mode_configure, selected,
                 scroll_offset, msg_queue, value_cache, tx, toggled, arrived>>

\* The frames msg_queue holds at most in the model: one more in a run that
\* logs its arrivals.
QueueRoom == IF arrived = NotLogged THEN MaxQueue ELSE MaxQueue + 1

\* LiveViewListener.on_message_received, on the notifier's thread.
Enqueue ==
  /\ pc \notin {"exit", "failed"}
  /\ Len(msg_queue) < QueueRoom
  /\ \E f \in bus :
       /\ msg_queue' = Append(msg_queue, f)
       /\ arrived' = IF arrived = NotLogged THEN arrived
                     ELSE Append(SelectSeq(arrived, LAMBDA x : x # f), f)
  /\ UNCHANGED <<file, rows, cols, bus, pc, active_keys, mode_configure,
                 selected, scroll_offset, key, msg, value_cache, tx, toggled,
                 draw_all, data_win>>

\* The program is run again after it has exited: a new process, the same
\* STATE_FILE, terminal and bus.
Relaunch ==
  /\ pc = "exit"
  /\ pc' = "start"
  /\ active_keys' = {}
  /\ mode_configure' = FALSE
  /\ selected' = 0
  /\ scroll_offset' = 0
  /\ key' = "none"
  /\ msg_queue' = <<>>
  /\ msg' = NoMsg
  /\ value_cache' = <<>>
  /\ tx' = <<>>
  /\ toggled' = NotRecorded
  /\ draw_all' = TRUE
  /\ data_win' = IF data_win = NotDrawn THEN data_win ELSE clear
  /\ UNCHANGED <<file, rows, cols, bus, arrived>>

Next ==
  \/ Startup \/ Relaunch
  \/ ViewQuit \/ ViewConfigure \/ ViewDown \/ ViewUp \/ ViewOther
  \/ CfgQuit \/ CfgCommit \/ CfgUp \/ CfgDown \/ CfgToggle \/ CfgOther
  \/ DrainOne \/ DrainDone
  \/ Enqueue

Spec == Init /\ [][Next]_vars

\* A run with no start file on a bus that delivers BusFrames, or one whose
\* terminal is too small to start.
InitBus ==
  /\ InitLoop
  /\ file = FileAbsent /\ rows \in {MinRows - 1, MinRows + 1}
  /\ cols = MinCols
  /\ bus = BusFrames /\ toggled = NotRecorded /\ arrived = NotLogged
  /\ data_win = NotDrawn

SpecBus == InitBus /\ [][Next]_vars

\* The steps of a run in which the operator changes no selection: View and
\* Configure mode, keys that are no command, quit.
NextIdle ==
  \/ Startup
  \/ ViewQuit \/ ViewConfigure \/ ViewOther
  \/ CfgQuit \/ CfgOther
  \/ DrainOne \/ DrainDone
  \/ Enqueue

\* Such a run on a bus that delivers RxFrames.
InitRx ==
  /\ InitLoop
  /\ file = FileAbsent /\ rows \in {MinRows - 1, MinRows + 1}
  /\ cols = MinCols
  /\ bus = RxFrames /\ toggled = NotRecorded /\ arrived = NotLogged
  /\ data_win = NotDrawn

SpecRx == InitRx /\ [][NextIdle]_vars

\* The loop's own steps are taken when they stay possible; nothing is asked
\* of the keyboard or of the bus.
SpecRxFair ==
  SpecRx /\ WF_vars(Startup) /\ WF_vars(DrainOne) /\ WF_vars(DrainDone)

\* Such a run on a bus that delivers OrderFrames, its arrivals logged.
InitOrder ==
  /\ InitLoop
  /\ file = FileAbsent /\ rows \in {MinRows - 1, MinRows + 1}
  /\ cols = MinCols
  /\ bus = OrderFrames /\ toggled = NotRecorded /\ arrived = <<>>
  /\ data_win = NotDrawn

SpecOrder == InitOrder /\ [][NextIdle]_vars

\* The steps of a run that enters Configure mode and stays there.
NextConfigure ==
  \/ Startup
  \/ ViewConfigure
  \/ CfgQuit \/ CfgUp \/ CfgDown \/ CfgToggle \/ CfgOther
  \/ DrainDone

\* Such a run, for every terminal height up to MaxTall, with no start file on
\* a silent bus.
InitConfigure ==
  /\ InitLoop
  /\ file = FileAbsent /\ rows \in (MinRows - 1)..MaxTall
  /\ cols = MinCols
  /\ bus = {} /\ toggled = NotRecorded /\ arrived = NotLogged
  /\ data_win = NotDrawn

SpecConfigure == InitConfigure /\ [][NextConfigure]_vars

\* ---- the drain loop, its test and its get_nowait as separate steps
\* 'while not msg_queue.empty()' found a frame: on to get_nowait.
DrainTest ==
  /\ pc = "drain"
  /\ msg_queue # <<>>
  /\ pc' = "get_nowait"
  /\ UNCHANGED <<file, rows, cols, bus, active_keys, mode_configure, selected,
                 scroll_offset, key, msg_queue, msg, value_cache, tx, toggled,
                 arrived, draw_all, data_win>>

\* DrainGet that takes the frame queued last.
DrainGet_TakesLast ==
  /\ pc = "get_nowait"
  /\ IF msg_queue = <<>>
       THEN /\ pc' = "drain"
            /\ UNCHANGED <<msg_queue, msg, value_cache, data_win>>
       ELSE /\ msg_queue' = SubSeq(msg_queue, 1, Len(msg_queue) - 1)
            /\ msg' = msg_queue[Len(msg_queue)]
            /\ IF framing_raises(msg')
                 THEN pc' = "failed" /\ UNCHANGED <<value_cache, data_win>>
                 ELSE /\ pc' = "drain"
                      /\ LET cbs == framing(msg')
                         IN /\ value_cache' =
                                 IF cbs = {} THEN value_cache
                                 ELSE on_didpid(value_cache, CHOOSE cb \in cbs : TRUE)
                            /\ data_win' =
                                 IF cbs = {} THEN data_win
                                 ELSE draw_row_value(data_win, mode_configure,
                                                     active_keys, scroll_offset,
                                                     CHOOSE cb \in cbs : TRUE)
  /\ UNCHANGED <<file, rows, cols, bus, active_keys, mode_configure, selected,
                 scroll_offset, key, tx, toggled, arrived, draw_all>>

\* get_nowait and the rest of the loop body: queue.Empty is caught and
\* passed over, a frame goes through framing and its callback.
DrainGet ==
  /\ pc = "get_nowait"
  /\ IF msg_queue = <<>>
       THEN /\ pc' = "drain"
            /\ UNCHANGED <<msg_queue, msg, value_cache, data_win>>
       ELSE /\ msg_queue' = Tail(msg_queue)
            /\ msg' = Head(msg_queue)
            /\ IF framing_raises(msg')
                 THEN pc' = "failed" /\ UNCHANGED <<value_cache, data_win>>
                 ELSE /\ pc' = "drain"
                      /\ LET cbs == framing(msg')
                         IN /\ value_cache' =
                                 IF cbs = {} THEN value_cache
                                 ELSE on_didpid(value_cache, CHOOSE cb \in cbs : TRUE)
                            /\ data_win' =
                                 IF cbs = {} THEN data_win
                                 ELSE draw_row_value(data_win, mode_configure,
                                                     active_keys, scroll_offset,
                                                     CHOOSE cb \in cbs : TRUE)
  /\ UNCHANGED <<file, rows, cols, bus, active_keys, mode_configure, selected,
                 scroll_offset, key, tx, toggled, arrived, draw_all>>

\* The steps of a run in which the operator changes no selection, the
\* listener's put interleaved with the test and with the get_nowait of the
\* drain loop.
NextQueue ==
  \/ Startup
  \/ ViewQuit \/ ViewConfigure \/ ViewOther
  \/ CfgQuit \/ CfgOther
  \/ DrainTest \/ DrainGet \/ DrainDone
  \/ Enqueue

\* Such a run on a bus that delivers ScreenFrames, its arrivals logged.
InitQueue ==
  /\ InitLoop
  /\ file = FileAbsent /\ rows = MinRows + 1
  /\ cols = MinCols
  /\ bus = ScreenFrames /\ toggled = NotRecorded /\ arrived = <<>>
  /\ data_win = NotDrawn

SpecQueue == InitQueue /\ [][NextQueue]_vars

\* The loop's own steps are taken when they stay possible, and getch returns
\* after its 200 ms at the latest; nothing is asked of the bus.
SpecQueueFair ==
  /\ SpecQueue
  /\ WF_vars(Startup) /\ WF_vars(ViewOther) /\ WF_vars(CfgOther)
  /\ WF_vars(DrainTest) /\ WF_vars(DrainGet) /\ WF_vars(DrainDone)

\* The steps of one session: everything but a second launch.
NextSession ==
  \/ Startup
  \/ ViewQuit \/ ViewConfigure \/ ViewDown \/ ViewUp \/ ViewOther
  \/ CfgQuit \/ CfgCommit \/ CfgUp \/ CfgDown \/ CfgToggle \/ CfgOther
  \/ DrainOne \/ DrainDone
  \/ Enqueue

\* A session with no start file, on a bus that delivers the response for
\* the rows of 0x46.
InitSession ==
  /\ InitLoop
  /\ file = FileAbsent /\ rows \in {MinRows + 1, MaxRows}
  /\ cols = MinCols
  /\ bus = {AatResponse} /\ toggled = NotRecorded /\ arrived = NotLogged
  /\ data_win = NotDrawn

SpecSession == InitSession /\ [][NextSession]_vars

\* The steps of a session in which the operator toggles nothing.
NextScreen ==
  \/ Startup
  \/ ViewQuit \/ ViewConfigure \/ ViewDown \/ ViewUp \/ ViewOther
  \/ CfgQuit \/ CfgCommit \/ CfgUp \/ CfgDown \/ CfgOther
  \/ DrainOne \/ DrainDone
  \/ Enqueue

\* Such a session with every row active or the rows of one key, on a bus that
\* delivers ScreenFrames, the data window tracked, on a terminal wide enough
\* to show the value cells and on the narrowest one.
InitScreen ==
  /\ InitLoop
  /\ file \in {FileAbsent} \cup {FileJson(json_dumps(<<k>>)) : k \in CatalogKeys}
  /\ rows = MinRows + 1
  /\ cols \in {MinCols, WideCols}
  /\ bus = ScreenFrames /\ toggled = NotRecorded /\ arrived = NotLogged
  /\ data_win = clear

SpecScreen == InitScreen /\ [][NextScreen]_vars

\* ------------------------------------------------------------ properties
\* The catalog row at index i (from 0).
Row(i) == iter_all_signals[i + 1]

LastRow == Len(iter_all_signals) - 1

\* S with the membership of k flipped.
Flip(S, k) == (S \ {k}) \cup ({k} \ S)

\* The loop waits for its first key: startup has loaded the active set.
JustStarted ==
  pc = "getch" /\ key = "none" /\ tx = <<[kind |-> "enter_diag_session", key |-> <<>>]>>

\* f is a dump of the set S in some order.
SavedOk(f, S) == f \in {FileJson(json_dumps(l)) : l \in py_list(S)}

InLoop == pc \in {"getch", "drain"}

\* C1: in View mode scroll_offset stays in [0, max(0, N - V)] for N active
\* keys and V = n_visible rows; scroll-down at the upper clamp and scroll-up
\* at 0 leave it unchanged.
C1_ScrollClamp ==
  /\ [](InLoop /\ ~mode_configure =>
          /\ 0 <= scroll_offset
          /\ scroll_offset <= Max(0, Cardinality(active_keys) - n_visible))
  /\ [][(pc = "getch" /\ ~mode_configure /\ key' \in {"KEY_DOWN", "j"}
           /\ scroll_offset = Max(0, Cardinality(active_keys) - n_visible))
          => scroll_offset' = scroll_offset]_vars
  /\ [][(pc = "getch" /\ ~mode_configure /\ key' \in {"KEY_UP", "k"}
           /\ scroll_offset = 0)
          => scroll_offset' = scroll_offset]_vars

\* A scroll-down was issued in View mode with the window at its upper clamp,
\* above 0.
C1_Witness ==
  /\ pc = "drain" /\ ~mode_configure /\ key = "KEY_DOWN"
  /\ scroll_offset > 0
  /\ scroll_offset = Cardinality(active_keys) - n_visible

\* C2: STATE_FILE changes only in the commit step from Configure to View; no
\* toggle, cursor move, quit, View-mode key or frame changes it.
C2_SaveOnlyOnCommit ==
  [][file' # file =>
       (pc = "getch" /\ mode_configure /\ key' = "v" /\ ~mode_configure')]_vars

\* The loop was left from Configure mode with toggles the file does not hold.
C2_Witness ==
  /\ pc = "exit" /\ mode_configure /\ key = "q"
  /\ file.kind = "json"
  /\ load_active_flags(file, iter_all_signals) # active_keys

\* C3: from an empty STATE_FILE load yields every catalog key; after every
\* row but one has been toggled off and the set committed, a load of the saved
\* file yields exactly the key of that one row.
C3_EndToEnd ==
  /\ (JustStarted /\ toggled = {}) => active_keys = CatalogKeys
  /\ \A r \in 0..LastRow :
       (/\ pc = "drain" /\ key = "v"
        /\ toggled = (0..LastRow) \ {r}
        /\ SavedOk(file, active_keys))
         => load_active_flags(file, iter_all_signals) = {Row(r).key}

\* C4: two toggles in a row at the same cursor position give back the active
\* set: the toggle of the toggle of any reachable set is that set, and in a
\* recorded run a state in which every row has been toggled an even number of
\* times has the set the run started with.
C4_ToggleTwice ==
  /\ (InLoop /\ mode_configure) =>
       Toggled(Toggled(active_keys, selected), selected) = active_keys
  /\ (InLoop /\ toggled = {}) => active_keys = CatalogKeys

\* A toggle has just brought the count of every row back to even, away from
\* the first row.
C4_Witness ==
  /\ pc = "drain" /\ key = "space" /\ toggled = {}
  /\ selected > 0
  /\ active_keys = CatalogKeys

\* C5: what a successful save writes, load reads back as the same set.
C5_RoundTrip ==
  [][(pc = "getch" /\ mode_configure /\ key' = "v"
        /\ file' \notin {file, FileGarbage})
       => load_active_flags(file', iter_all_signals) = active_keys]_vars

\* The program started again from a file it had saved, holding two or more
\* keys, one of them foreign to the catalog, and loaded that set.
C5_Witness ==
  /\ JustStarted
  /\ Cardinality(active_keys) >= 2
  /\ ForeignKey \in active_keys
  /\ SavedOk(file, active_keys)

\* C6: with STATE_FILE absent, unreadable or not parseable, startup goes on
\* to the loop with every catalog key active.
C6_LoadFailsSoft ==
  /\ [][(pc = "start" /\ pc' # "start" /\ rows >= MinRows /\ cols >= MinCols
         /\ file.kind # "json") => pc' = "getch"]_vars
  /\ []((JustStarted /\ file.kind # "json") => active_keys = CatalogKeys)

\* The loop started from a file json.loads rejects, every catalog key active.
C6_Witness ==
  JustStarted /\ file = FileGarbage /\ active_keys = CatalogKeys

C8_ActiveSubsetOfCatalog == active_keys \subseteq CatalogKeys

\* C9: inside the loop the active set changes only by the space key in
\* Configure mode, which flips the key of the row under the cursor and no
\* other; every other key, the poll pass and the drain leave it unchanged.
C9_OnlyToggleMutates ==
  /\ [][(InLoop /\ active_keys' # active_keys) =>
          (pc = "getch" /\ mode_configure /\ key' = "space")]_vars
  /\ [][(pc = "getch" /\ mode_configure /\ key' = "space") =>
          active_keys' = Flip(active_keys, Row(selected).key)]_vars

\* The space key has just removed the key of a row below the first.
C9_Witness ==
  /\ pc = "drain" /\ key = "space" /\ mode_configure
  /\ selected > 0
  /\ Row(selected).key \notin active_keys
  /\ active_keys # {}

\* C10: 'c' in View mode enters Configure mode with cursor 0 and scroll 0 and
\* leaves the active set and STATE_FILE unchanged.
C10_EnterConfigure ==
  [][(pc = "getch" /\ ~mode_configure /\ key' = "c") =>
       /\ mode_configure'
       /\ selected' = 0
       /\ scroll_offset' = 0
       /\ active_keys' = active_keys
       /\ file' = file]_vars

\* Configure mode has just been entered, cursor and scroll at 0, by a run
\* whose terminal shows fewer rows than there are active keys.
C10_Witness ==
  /\ pc = "drain" /\ key = "c" /\ mode_configure
  /\ selected = 0 /\ scroll_offset = 0
  /\ Cardinality(active_keys) > n_visible

\* C11: the commit key in Configure mode saves the current active set (or the
\* save fails and the file is left as the failed write left it), switches to
\* View mode and sets scroll_offset to 0, so the View-mode clamp
\* scroll_offset <= max(0, N - n_visible) holds in the state right after it.
C11_CommitResetsScroll ==
  [][(pc = "getch" /\ mode_configure /\ key' = "v") =>
       /\ ~mode_configure'
       /\ scroll_offset' = 0
       /\ active_keys' = active_keys
       /\ SavedOk(file', active_keys) \/ file' \in {file, FileGarbage}
       /\ scroll_offset' <= Max(0, Cardinality(active_keys') - n_visible)]_vars

\* A commit after the cursor went to the last row and every key was switched
\* off: the file holds the empty set and View mode starts at offset 0.
C11_Witness ==
  /\ pc = "drain" /\ key = "v" /\ ~mode_configure
  /\ selected = LastRow /\ active_keys = {}
  /\ scroll_offset = 0 /\ SavedOk(file, active_keys)

\* C12: 0 <= selected < |catalog| in every reachable state; the up key at
\* row 0 and the down key at the last row leave selected unchanged.
C12_CursorInRange ==
  /\ [](0 <= selected /\ selected < Len(iter_all_signals))
  /\ [][(pc = "getch" /\ mode_configure /\ selected = 0
         /\ key' \in {"KEY_UP", "k"}) => selected' = 0]_vars
  /\ [][(pc = "getch" /\ mode_configure /\ selected = LastRow
         /\ key' \in {"KEY_DOWN", "j"}) => selected' = LastRow]_vars

\* The down key was pressed with the cursor on the last row.
C12_Witness ==
  /\ pc = "drain" /\ mode_configure /\ key = "KEY_DOWN"
  /\ selected = LastRow /\ scroll_offset = LastRow

\* C13: scroll_offset >= 0 in every reachable state, and in Configure mode
\* scroll_offset <= max(0, |catalog| - visible_rows).
C13_ConfigureScrollClamp ==
  /\ scroll_offset >= 0
  /\ mode_configure =>
       scroll_offset <= Max(0, Len(iter_all_signals) - visible_rows)

\* C14: reading 'q' in either mode ends the loop in that tick with nothing
\* sent, dispatched, cached or saved, and nothing happens to those while the
\* program stays exited.
C14_QuitIsTerminal ==
  /\ [][(pc = "getch" /\ key' = "q") =>
          /\ pc' = "exit"
          /\ UNCHANGED <<tx, msg_queue, value_cache, file, active_keys>>]_vars
  /\ [][(pc = "exit" /\ pc' = "exit") =>
          UNCHANGED <<tx, msg_queue, value_cache, file, active_keys>>]_vars

\* Quit was read in Configure mode while a frame waited in msg_queue.
C14_Witness ==
  /\ pc = "exit" /\ key = "q" /\ mode_configure
  /\ msg_queue # <<>> /\ active_keys # {}

\* The keys no branch of the current mode handles.
NotACommand(configure) ==
  IF configure THEN Keys \ {"q", "v", "KEY_UP", "k", "KEY_DOWN", "j", "space"}
  ELSE Keys \ {"q", "c", "KEY_DOWN", "j", "KEY_UP", "k"}

\* C15: a key that is not a command of the current mode (the getch timeout,
\* 'v' or space in View mode, 'c' in Configure mode) changes none of mode,
\* cursor, scroll offset, active set and file, and the tick goes on to its
\* poll pass and the drain.
C15_NonCommandIsNoOp ==
  [][(pc = "getch" /\ key' \in NotACommand(mode_configure)) =>
       /\ UNCHANGED <<mode_configure, selected, scroll_offset, active_keys, file>>
       /\ pc' = "drain"
       /\ tx' = PollPass(mode_configure, active_keys, scroll_offset)]_vars

\* 'c' was read in Configure mode.
C15_Witness ==
  /\ pc = "drain" /\ key = "c" /\ mode_configure
  /\ selected > 0 /\ active_keys # {} /\ Len(tx) = 1

\* The requests among the frames sent by the last poll pass.
Requests == SelectSeq(tx, LAMBDA m : m.kind = "request")

\* The keys of the active catalog entries, in catalog order, at positions
\* scroll_offset .. scroll_offset + n_visible - 1.
WindowKeys ==
  LET act == SelectSeq(iter_all_signals, LAMBDA r : r.key \in active_keys)
  IN {act[i].key :
        i \in (scroll_offset + 1)..Min(scroll_offset + n_visible, Len(act))}

\* C16: a View-mode tick sends exactly one request per key in the visible
\* window of the active set: the requested keys are the window's keys, all
\* active, and none is requested twice.
C16_OneRequestPerVisibleKey ==
  (pc = "drain" /\ ~mode_configure) =>
    /\ {Requests[i].key : i \in DOMAIN Requests} = WindowKeys
    /\ WindowKeys \subseteq active_keys
    /\ \A i, j \in DOMAIN Requests :
         Requests[i].key = Requests[j].key => i = j

\* C17: every poll pass sends exactly one keep-alive, whatever is active.
C17_OneKeepAlivePerPass ==
  pc = "drain" =>
    Len(SelectSeq(tx, LAMBDA m : m.kind = "tester_present")) = 1

\* A View-mode pass with an empty active set: the keep-alive is all it sent.
C17_Witness ==
  /\ pc = "drain" /\ ~mode_configure /\ active_keys = {}
  /\ tx = <<[kind |-> "tester_present", key |-> <<>>]>>

\* The drain loop takes the head of msg_queue in this step.
TakesHead == pc = "drain" /\ msg_queue # <<>> /\ msg' = Head(msg_queue)

ResponseKey(m) ==
  IF m.data[2] = 65 THEN <<m.arbitration_id - 8, 1, m.data[3]>>
  ELSE <<m.arbitration_id - 8, 34, m.data[3] * 256 + m.data[4]>>

\* m is a response to a request for a catalog entry.
Recognized(m) ==
  /\ (m.arbitration_id \div 8) % 2 = 1
  /\ Len(m.data) >= 4
  /\ m.data[2] \in {65, 98}
  /\ ResponseKey(m) \in CatalogKeys

\* C19: a recognized response is cached under its ResponseKey and under no
\* key that keeps bit 3, and that is the key draw_row reads for the catalog
\* entry with the request address; the 0x41 response from 0x7E8 for pid 0x0C
\* sets the entry (0x7E0, 0x01, 0x0C), which the RPM row shows.
C19_NormalizedKey ==
  [][(TakesHead /\ Recognized(Head(msg_queue))) =>
       LET k == ResponseKey(msg')
       IN /\ k \in DOMAIN value_cache'
          /\ \A x \in DOMAIN value_cache' : (x[1] \div 8) % 2 = 0
          /\ \A i \in DOMAIN iter_all_signals :
               iter_all_signals[i].key = k =>
                 /\ draw_row(value_cache', iter_all_signals[i]) = value_cache'[k]
                 /\ draw_row(value_cache', iter_all_signals[i]) # Placeholder
          /\ msg' = RpmResponse =>
               /\ k = <<2016, 1, 12>>
               /\ draw_row(value_cache', Row(0)) = Text("rpm", 1726, <<>>)]_vars

\* The RPM response was taken after the DID response: both values are in
\* the cache under the request address and the RPM row shows 1726 rpm.
C19_Witness ==
  /\ pc = "drain" /\ msg = RpmResponse
  /\ DOMAIN value_cache = {<<2016, 1, 12>>, <<2016, 34, 4352>>}
  /\ draw_row(value_cache, Row(0)) = Text("rpm", 1726, <<>>)

\* The value a recognized response carries, decoded for the catalog entry of
\* its key.
ResponseValue(m) ==
  LET e == CHOOSE r \in Range(iter_all_signals) : r.key = ResponseKey(m)
  IN Decode(e.info.fn, Tail2(m.data, IF m.data[2] = 65 THEN 3 ELSE 4))

\* C20: a recognized response sets its cache entry in either mode, whether
\* or not the key is active or on screen, and no key press changes the
\* cache, so a row toggled on later shows the value last received.
C20_CacheUnconditional ==
  /\ [][(TakesHead /\ Recognized(Head(msg_queue))) =>
          /\ ResponseKey(msg') \in DOMAIN value_cache'
          /\ value_cache'[ResponseKey(msg')] = ResponseValue(msg')]_vars
  /\ [][pc = "getch" => value_cache' = value_cache]_vars

\* In Configure mode the DID response was taken while its key was switched
\* off, and the cache holds its value.
C20_Witness ==
  /\ pc = "drain" /\ mode_configure /\ msg = DidResponse
  /\ <<2016, 34, 4352>> \notin active_keys
  /\ <<2016, 34, 4352>> \in DOMAIN value_cache
  /\ value_cache[<<2016, 34, 4352>>] = Text("rpm", 1726, <<>>)

\* m has no payload, a payload that ends inside its service header, or a
\* service code other than 0x41 and 0x62.
Unparsable(m) ==
  \/ Len(m.data) < 2
  \/ m.data[2] \notin {65, 98}
  \/ m.data[2] = 65 /\ Len(m.data) < 3
  \/ m.data[2] = 98 /\ Len(m.data) < 4

\* C21: taking an unknown or malformed frame from msg_queue changes no cache
\* entry and leaves the loop in its drain, and a well-formed response taken
\* in the same run is still cached.
C21_MalformedDiscarded ==
  /\ [][(TakesHead /\ Unparsable(Head(msg_queue))) =>
          value_cache' = value_cache /\ pc' = "drain"]_vars
  /\ [][(TakesHead /\ Head(msg_queue) = RpmResponse) =>
          /\ pc' = "drain"
          /\ <<2016, 1, 12>> \in DOMAIN value_cache'
          /\ value_cache'[<<2016, 1, 12>>] = Text("rpm", 1726, <<>>)]_vars

\* The frame with service code 0x99 was taken, the cache is still empty and
\* the RPM response that arrived meanwhile waits for the next pass.
C21_Witness ==
  /\ pc = "drain" /\ msg = UnknownService
  /\ value_cache = <<>> /\ msg_queue = <<RpmResponse>>

\* m is a response for a catalog entry whose decode function raises on m's
\* value bytes.
DecodeFails(m) ==
  /\ (m.arbitration_id \div 8) % 2 = 1
  /\ Len(m.data) >= 3
  /\ m.data[2] = 65 \/ (m.data[2] = 98 /\ Len(m.data) >= 4)
  /\ ResponseKey(m) \in CatalogKeys
  /\ ResponseValue(m) = DecodeError

\* C22: when the decode function raises on a response, the loop stays in its
\* drain, the signal's cache entry becomes the error marker and every other
\* entry is as before.
C22_DecodeFailureContained ==
  [][(TakesHead /\ DecodeFails(Head(msg_queue))) =>
       LET k == ResponseKey(msg')
       IN /\ pc' = "drain"
          /\ DOMAIN value_cache' = DOMAIN value_cache \cup {k}
          /\ value_cache'[k] = DecodeError
          /\ \A x \in DOMAIN value_cache \ {k} :
               value_cache'[x] = value_cache[x]]_vars

\* The RPM response without value bytes was taken after an air-temperature
\* response: RPM shows the error marker, the temperature its 20 C.
C22_Witness ==
  /\ pc = "drain" /\ msg = TruncatedRpm
  /\ DOMAIN value_cache = {<<2016, 1, 12>>, <<2016, 1, 70>>}
  /\ value_cache[<<2016, 1, 12>>] = DecodeError
  /\ value_cache[<<2016, 1, 70>>] = Text("C", 20, <<>>)

\* C23: every tick completes: a drain that has begun ends and the loop goes
\* back to getch (or the program ends), also while frames keep arriving.
C23_TickCompletes == (pc = "drain") ~> (pc # "drain")

\* The frame of arrived that arrived last among those with the key k.
LastFor(k) ==
  LET on == SelectSeq(arrived, LAMBDA f : Recognized(f) /\ ResponseKey(f) = k)
  IN on[Len(on)]

\* C24: once msg_queue is empty, the cache entry of every key a response has
\* arrived for holds the value of the response that arrived last for it.
C24_LastWriteWins ==
  (arrived # NotLogged /\ msg_queue = <<>> /\ pc # "failed") =>
    \A i \in DOMAIN arrived :
      Recognized(arrived[i]) =>
        LET k == ResponseKey(arrived[i])
        IN /\ k \in DOMAIN value_cache
           /\ value_cache[k] = ResponseValue(LastFor(k))

\* The 800 rpm response arrived after the 1726 rpm one and the queue is
\* drained: the cache holds 800 rpm.
C24_Witness ==
  /\ pc = "drain" /\ msg_queue = <<>> /\ msg = RpmIdle
  /\ arrived = <<DidResponse, RpmResponse, RpmIdle>>
  /\ value_cache[<<2016, 1, 12>>] = Text("rpm", 800, <<>>)

\* C25: a commit whose write fails still ends in View mode at offset 0 with
\* the active set as the operator left it, and the tick goes on to its poll
\* pass and drain.
C25_SaveFailureNonFatal ==
  [][(pc = "getch" /\ mode_configure /\ key' = "v"
      /\ ~SavedOk(file', active_keys)) =>
       /\ pc' = "drain"
       /\ ~mode_configure' /\ scroll_offset' = 0
       /\ active_keys' = active_keys
       /\ tx' # <<>> /\ tx'[1].kind = "tester_present"]_vars

\* After toggles, a commit left the unparseable file as it was: View mode,
\* the toggled set in memory.
C25_Witness ==
  /\ pc = "drain" /\ key = "v" /\ ~mode_configure /\ scroll_offset = 0
  /\ file = FileGarbage
  /\ toggled # NotRecorded /\ toggled # {}
  /\ active_keys = {Row(i).key : i \in 0..LastRow} \ {Row(i).key : i \in toggled}

\* C26: with fewer than 4 rows or fewer than 40 columns the program fails at
\* startup and stays failed: no active set is loaded and no frame is ever
\* sent.
C26_SmallTerminalFatal ==
  /\ [][(pc = "start" /\ pc' # "start" /\ (rows < 4 \/ cols < 40)) =>
          pc' = "failed"]_vars
  /\ []((rows < 4 \/ cols < 40) =>
          /\ pc \in {"start", "failed"}
          /\ active_keys = {} /\ tx = <<>> /\ value_cache = <<>>)
  /\ [][pc = "failed" => pc' = "failed"]_vars

\* A terminal tall enough but one column too narrow: failed, nothing sent,
\* a frame the listener queued meanwhile left unread.
C26_Witness ==
  /\ pc = "failed" /\ rows >= 4 /\ cols = 39
  /\ tx = <<>> /\ active_keys = {} /\ msg_queue # <<>>

\* The position in list of the entry a catalog row was made from.
Declared(list, r) ==
  CHOOSE n \in DOMAIN list :
    /\ list[n].ecu = r.key[1] /\ list[n].id = r.key[3]
    /\ list[n].label = r.info.label

\* The rows render_configure highlights.
Highlighted ==
  LET lines == render_configure(active_keys, selected, scroll_offset)
  IN {lines[i].entry : i \in {j \in DOMAIN lines : lines[j].reverse}}

C28_LookupExact ==
  InLoop =>
  /\ \A n \in DOMAIN PID_LIST :
       lookup(<<PID_LIST[n].ecu, 1, PID_LIST[n].id>>) = {PID_LIST[n]}
  /\ \A n \in DOMAIN DID_LIST :
       lookup(<<DID_LIST[n].ecu, 34, DID_LIST[n].id>>) = {DID_LIST[n]}
  /\ \A k \in {ForeignKey, <<2017, 1, 12>>, <<2016, 34, 12>>, <<2016, 1, 4352>>} :
       lookup(k) = {}

\* C29: no two catalog entries share a key, so the catalog rows whose key is
\* active are as many as the active set has keys.
C29_KeysUnique ==
  /\ \A i, j \in DOMAIN PID_LIST :
       (PID_LIST[i].ecu = PID_LIST[j].ecu /\ PID_LIST[i].id = PID_LIST[j].id)
         => i = j
  /\ \A i, j \in DOMAIN DID_LIST :
       (DID_LIST[i].ecu = DID_LIST[j].ecu /\ DID_LIST[i].id = DID_LIST[j].id)
         => i = j
  /\ (InLoop /\ active_keys \subseteq CatalogKeys) =>
       Len(SelectSeq(iter_all_signals, LAMBDA r : r.key \in active_keys))
         = Cardinality(active_keys)

\* C30: in Configure mode the cursor is inside the window render_configure
\* draws: scroll_offset <= selected < scroll_offset + n_visible.
C30_CursorInWindow ==
  mode_configure =>
    /\ scroll_offset <= selected
    /\ selected < scroll_offset + n_visible
    /\ Cardinality(Highlighted) = 1

\* On the tallest terminal the cursor is on the last row and the window
\* trails it by one row.
C30_Witness ==
  /\ pc = "drain" /\ mode_configure /\ rows = MaxTall
  /\ selected = LastRow /\ scroll_offset = LastRow - 1

\* C31: value_cache changes only in a pass of the drain loop, by on_didpid
\* for a callback of the frame taken; no key branch, poll pass, render, save
\* or load changes it, and no step of the session removes an entry.
C31_CorrelatorSoleWriter ==
  [][/\ value_cache' # value_cache =>
          /\ pc = "drain" /\ msg_queue # <<>>
          /\ \E cb \in framing(Head(msg_queue)) :
               value_cache' = on_didpid(value_cache, cb)
     /\ \A k \in DOMAIN value_cache : k \in DOMAIN value_cache']_vars

\* A commit with its save and its poll pass has followed a cached response.
C31_Witness ==
  /\ pc = "drain" /\ key = "v" /\ ~mode_configure
  /\ msg = NoMsg /\ file # FileAbsent
  /\ value_cache # <<>>

\* The rows of the data window whose value cell differs between a and b.
CellsChanged(a, b) == {y \in 1..Len(a) : a[y].cell # b[y].cell}

\* The drain loop takes the head of msg_queue and dispatches it in this step.
Dispatches ==
  pc = "drain" /\ msg_queue # <<>> /\ msg_queue' = Tail(msg_queue)

\* C32: a pass of the drain loop does not ask for a full redraw and redraws
\* no line; it changes the value cell of at most one row, and changes one
\* only in View mode for a recognized response whose key is in the visible
\* window; in Configure mode, and for a key outside the window, data_win is
\* left as it was.
C32_IncrementalUpdateOnly ==
  [][Dispatches =>
       /\ draw_all' = draw_all
       /\ Len(data_win') = Len(data_win)
       /\ \A y \in 1..Len(data_win) : data_win'[y].line = data_win[y].line
       /\ Cardinality(CellsChanged(data_win, data_win')) <= 1
       /\ data_win' # data_win =>
            /\ ~mode_configure
            /\ Recognized(Head(msg_queue))
            /\ ResponseKey(Head(msg_queue)) \in WindowKeys]_vars

\* In the tick of a commit a response has been written into its row while
\* the window still shows the lines of Configure mode.
C32_Witness ==
  /\ pc = "drain" /\ key = "v" /\ ~mode_configure /\ draw_all
  /\ msg = RpmResponse /\ <<2016, 1, 12>> \in DOMAIN value_cache
  /\ \E y \in 1..Len(data_win) :
       /\ data_win[y].line.kind = "configure"
       /\ data_win[y].cell = Cell(value_cache[<<2016, 1, 12>>])
       /\ data_win[y].cell # NoCell

\* C33: while the loop waits for a key in View mode the data window is the
\* one render_view would draw now: every row iter_visible_rows visits shows
\* its entry with the cached value of the entry's key, or the placeholder,
\* and the rows below are blank.
C33_ScreenShowsCache ==
  (pc = "getch" /\ ~mode_configure) =>
    data_win = render_view(active_keys, scroll_offset, value_cache)

\* The catalog rows whose key is active: what View mode scrolls over.
ActiveRows == SelectSeq(iter_all_signals, LAMBDA e : e.key \in active_keys)

\* The largest scroll_offset the stop of the scroll-down branch lets View
\* mode reach.
MaxOffset == Max(0, Cardinality(active_keys) - n_visible)

\* C34: in View mode the last active catalog row is within the n_visible
\* rows from MaxOffset, and when the window shows fewer rows than it holds
\* no active row is left below it.
C34_EveryActiveRowReachable ==
  (InLoop /\ ~mode_configure) =>
    /\ Len(ActiveRows) <= MaxOffset + n_visible
    /\ Len(iter_visible_rows(active_keys, scroll_offset)) < n_visible =>
         Len(ActiveRows) <= scroll_offset + n_visible

\* C35: msg_queue changes only by the listener appending a frame of the bus
\* at its tail and by get_nowait removing its head, which is the frame that
\* goes through framing and its callback in the same step; get_nowait never
\* finds the queue empty; and while the loop runs every queued frame comes
\* to be the frame the drain loop dispatches.
C35_QueueHandsOverInOrder ==
  /\ [][msg_queue' # msg_queue =>
          \/ \E f \in bus :
               /\ msg_queue' = Append(msg_queue, f)
               /\ UNCHANGED <<pc, msg, value_cache>>
          \/ /\ pc = "get_nowait" /\ msg_queue # <<>>
             /\ msg_queue' = Tail(msg_queue)
             /\ msg' = Head(msg_queue)
             /\ \/ framing(msg') = {} /\ value_cache' = value_cache
                \/ \E cb \in framing(msg') :
                     value_cache' = on_didpid(value_cache, cb)]_vars
  /\ [](pc = "get_nowait" => msg_queue # <<>>)
  /\ \A f \in ScreenFrames :
       (\E i \in 1..Len(msg_queue) : msg_queue[i] = f)
         ~> (msg = f \/ pc \in {"exit", "failed"})

\* A frame arrived between the test of the queue and get_nowait, behind the
\* one the test saw, after an earlier frame of the tick was dispatched.
C35_Witness ==
  /\ pc = "get_nowait" /\ msg # NoMsg
  /\ Len(msg_queue) = 2 /\ msg_queue[1] # msg_queue[2]

\* C36: a tick whose key branch ends in Configure mode sends the keep-alive
\* and nothing else, whatever is active and wherever the window is; the tick
\* of a commit sends, after the keep-alive, one request for each of the first
\* n_visible active catalog rows, in catalog order.
C36_NoRequestsInConfigure ==
  [][(pc = "getch" /\ pc' = "drain") =>
       /\ mode_configure' =>
            tx' = <<[kind |-> "tester_present", key |-> <<>>]>>
       /\ (mode_configure /\ ~mode_configure') =>
            LET top == SubSeq(ActiveRows', 1, Min(n_visible, Len(ActiveRows')))
            IN tx' = <<[kind |-> "tester_present", key |-> <<>>]>>
                     \o [i \in 1..Len(top) |->
                           [kind |-> "request", key |-> top[i].key]]]_vars

\* The tick of a commit, made with the cursor moved down and a changed
\* selection saved, has sent requests.
C36_Witness ==
  /\ pc = "drain" /\ key = "v" /\ ~mode_configure
  /\ selected > 0 /\ active_keys # CatalogKeys /\ SavedOk(file, active_keys)
  /\ Len(Requests) > 0
====
